---- MODULE Spec2Model ----
(***************************************************************************)
(* A model of ccd-pick (src/src/main.rs): the usage store kept in          *)
(* $HOME/.ccd_frequency, the candidate search over the locate index and    *)
(* the usage map, the ranking of the candidates, the command-line modes    *)
(* and the interactive picker's state machine.                             *)
(*                                                                         *)
(* A Rust String is a sequence of one-character strings, so that length,   *)
(* lower-casing, substring search, formatting and parsing are computed.    *)
(* A HashMap<String, u32> is a function from its keys to their counts.     *)
(* Option<T> is <<>> (None) or <<x>> (Some(x)).                            *)
(***************************************************************************)
EXTENDS Naturals, Integers, Sequences, FiniteSets, TLC

VARIABLES
    sortCall,    \* one call of sort_directories: [pc, input, output]
    searchCall,  \* one call of DirectorySearcher::search: its inputs and result
    navCall,     \* one call of App::navigate: the list, the selection, the result
    storeCall,   \* FrequencyManager::save and load applied to one map or one file
    file,        \* the store file $HOME/.ccd_frequency: [exists, readable, bytes]
    disk,        \* the file system: "dir", "file" or "none" for each path
    proc,        \* the running ccd-pick processes: command, position, locals, outputs
    app          \* the App of the process in interactive mode

vars == <<sortCall, searchCall, navCall, storeCall, file, disk, proc, app>>

callVars == <<sortCall, searchCall, navCall, storeCall>>
sysVars == <<file, disk, proc, app>>

\* The value of a variable in a specification that does not use it.
Unused == [pc |-> "unused"]

(***************************************************************************)
(* Bounds of the model.                                                    *)
(***************************************************************************)
MaxCount == 2
MaxSortLen == 3
MaxLocate == 2
MaxPattern == 1
MaxRows == 22
MaxEntries == 2
MaxLines == 2
MaxInput == 2

(***************************************************************************)
(* The paths the model's file system, locate index and usage store speak   *)
(* of: two of the same length, one longer, one in upper case.              *)
(***************************************************************************)
PathA == <<"/", "a">>
PathB == <<"/", "B">>
PathAB == <<"/", "a", "/", "b">>
Paths == {PathA, PathB, PathAB}

Counts == 0 .. MaxCount

\* The characters of the patterns that are searched for or typed.
PatternChars == {"a", "B"}

(***************************************************************************)
(* DirectoryEntry { path, count }                                          *)
(***************************************************************************)
DirectoryEntry(path, count) == [path |-> path, count |-> count]

Entries == [path : Paths, count : Counts]

(***************************************************************************)
(* Ord::cmp and Ordering::then.                                            *)
(***************************************************************************)
cmp(x, y) == IF x < y THEN "Less" ELSE IF x = y THEN "Equal" ELSE "Greater"

ordering_then(first, second) == IF first = "Equal" THEN second ELSE first

(***************************************************************************)
(* The comparator of sort_directories:                                     *)
(*   b.count.cmp(&a.count).then(a.path.len().cmp(&b.path.len()))           *)
(***************************************************************************)
sort_cmp_no_tiebreak(a, b) == cmp(b.count, a.count)

sort_cmp(a, b) ==
    ordering_then(cmp(b.count, a.count), cmp(Len(a.path), Len(b.path)))

(***************************************************************************)
(* slice::sort_by is a stable sort: elements that compare Equal keep their *)
(* order.  An insertion sort that places each element after the elements   *)
(* not greater than it computes the same sequence.                         *)
(***************************************************************************)
RECURSIVE insert_stable(_, _)
insert_stable(sorted, e) ==
    IF sorted = <<>> THEN <<e>>
    ELSE IF sort_cmp(e, Head(sorted)) = "Less" THEN <<e>> \o sorted
    ELSE <<Head(sorted)>> \o insert_stable(Tail(sorted), e)

RECURSIVE sort_directories(_)
sort_directories(directories) ==
    IF directories = <<>> THEN <<>>
    ELSE insert_stable(sort_directories(SubSeq(directories, 1, Len(directories) - 1)),
                       directories[Len(directories)])

(***************************************************************************)
(* Sequences of at most n elements of S.                                   *)
(***************************************************************************)
SeqsUpTo(S, n) == UNION {[1 .. k -> S] : k \in 0 .. n}

Range(s) == {s[i] : i \in DOMAIN s}

Occurrences(s, x) == Cardinality({i \in DOMAIN s : s[i] = x})

IsPermutation(s, t) ==
    /\ Len(s) = Len(t)
    /\ \A x \in Range(s) \cup Range(t) : Occurrences(s, x) = Occurrences(t, x)


Orders(S) ==
    {s \in [1 .. Cardinality(S) -> S] : \A i, j \in DOMAIN s : s[i] = s[j] => i = j}

None == <<>>
Some(x) == <<x>>

Ok(v) == [ok |-> TRUE, val |-> v]
Err(e) == [ok |-> FALSE, err |-> e]

(***************************************************************************)
(* str::to_lowercase and str::contains over the model's alphabet.          *)
(***************************************************************************)
to_lowercase_char(c) == CASE c = "A" -> "a" [] c = "B" -> "b" [] OTHER -> c

to_lowercase(s) == [i \in 1 .. Len(s) |-> to_lowercase_char(s[i])]

contains(haystack, needle) ==
    \E i \in 0 .. (Len(haystack) - Len(needle)) :
        SubSeq(haystack, i + 1, i + Len(needle)) = needle

(***************************************************************************)
(* HashMap::insert, remove, get(..).unwrap_or(&0), contains_key.           *)
(***************************************************************************)
EmptyMap == [k \in {} |-> 0]

map_insert(m, key, value) ==
    [k \in DOMAIN m \cup {key} |-> IF k = key THEN value ELSE m[k]]

map_remove(m, key) == [k \in DOMAIN m \ {key} |-> m[k]]

get_or_0(m, key) == IF key \in DOMAIN m THEN m[key] ELSE 0

contains_key(m, key) == key \in DOMAIN m

(***************************************************************************)
(* The store file's bytes: "<count>\t<path>\n" per entry.                  *)
(***************************************************************************)
TAB == "\t"
NL == "\n"
CR == "\r"
\* A byte sequence that is not valid UTF-8.
InvalidUtf8 == "<ff>"

Digits == <<"0", "1", "2", "3", "4", "5", "6", "7", "8", "9">>

IsDigit(c) == \E d \in 1 .. 10 : Digits[d] = c

DigitValue(c) == (CHOOSE d \in 1 .. 10 : Digits[d] = c) - 1

\* u32::MAX, as the digits of its decimal form (it exceeds the checker's integers).
U32MaxDigits == <<4, 2, 9, 4, 9, 6, 7, 2, 9, 5>>

\* Display for u32: the decimal digits, no sign, no leading zero.
RECURSIVE u32_to_string(_)
u32_to_string(n) ==
    IF n < 10 THEN <<Digits[n + 1]>>
    ELSE u32_to_string(n \div 10) \o <<Digits[(n % 10) + 1]>>

RECURSIVE strip_zeros(_)
strip_zeros(ds) ==
    IF Len(ds) > 1 /\ Head(ds) = "0" THEN strip_zeros(Tail(ds)) ELSE ds

RECURSIVE digits_value(_)
digits_value(ds) ==
    IF ds = <<>> THEN 0
    ELSE 10 * digits_value(SubSeq(ds, 1, Len(ds) - 1)) + DigitValue(ds[Len(ds)])

\* Lexicographic: the ten digits ds name a number above u32::MAX.
RECURSIVE above_u32_max(_, _)
above_u32_max(ds, i) ==
    IF i > 10 THEN FALSE
    ELSE IF DigitValue(ds[i]) # U32MaxDigits[i] THEN DigitValue(ds[i]) > U32MaxDigits[i]
    ELSE above_u32_max(ds, i + 1)

(***************************************************************************)
(* str::parse::<u32>: an optional '+', then one or more digits, the value  *)
(* at most u32::MAX; anything else is an error (None).                     *)
(***************************************************************************)
parse_u32(s) ==
    LET body == IF s # <<>> /\ Head(s) = "+" THEN Tail(s) ELSE s
        sig == strip_zeros(body)
    IN  IF body = <<>> \/ \E i \in DOMAIN body : ~IsDigit(body[i]) THEN None
        ELSE IF Len(sig) > 10 \/ (Len(sig) = 10 /\ above_u32_max(sig, 1)) THEN None
        ELSE Some(digits_value(sig))

FirstIndex(s, c) ==
    IF \E i \in DOMAIN s : s[i] = c
    THEN CHOOSE i \in DOMAIN s : s[i] = c /\ \A j \in 1 .. i - 1 : s[j] # c
    ELSE 0

\* str::split_once('\t')
split_once(line, c) ==
    LET i == FirstIndex(line, c)
    IN  IF i = 0 THEN None
        ELSE Some(<<SubSeq(line, 1, i - 1), SubSeq(line, i + 1, Len(line))>>)

\* BufRead::lines: split at '\n'; a line that ended in "\r\n" loses the '\r' too.
RECURSIVE buf_lines(_)
buf_lines(bytes) ==
    IF bytes = <<>> THEN <<>>
    ELSE LET i == FirstIndex(bytes, NL)
             raw == SubSeq(bytes, 1, i - 1)
         IN  IF i = 0 THEN <<bytes>>
             ELSE <<IF raw # <<>> /\ raw[Len(raw)] = CR
                    THEN SubSeq(raw, 1, Len(raw) - 1) ELSE raw>>
                  \o buf_lines(SubSeq(bytes, i + 1, Len(bytes)))

\* The body of load's loop for one line: insert when the line splits and parses.
load_line(frequency_map, line) ==
    LET parts == split_once(line, TAB)
    IN  IF parts = None THEN frequency_map
        ELSE LET count == parse_u32(parts[1][1])
             IN  IF count = None THEN frequency_map
                 ELSE map_insert(frequency_map, parts[1][2], count[1])

RECURSIVE load_lines(_, _)
load_lines(frequency_map, ls) ==
    IF ls = <<>> THEN frequency_map
    ELSE load_lines(load_line(frequency_map, Head(ls)), Tail(ls))

(***************************************************************************)
(* The file $HOME/.ccd_frequency: [exists, readable, bytes].               *)
(* FrequencyManager::load: an empty map when the file cannot be opened,    *)
(* an I/O error when a line cannot be read as UTF-8, else the map of the   *)
(* well-formed lines (a later line for a path replaces an earlier one).    *)
(***************************************************************************)
load(f) ==
    IF ~(f.exists /\ f.readable) THEN Ok(EmptyMap)
    ELSE LET ls == buf_lines(f.bytes)
         IN  IF \E i \in DOMAIN ls : \E j \in DOMAIN ls[i] : ls[i][j] = InvalidUtf8
             THEN Err("IoError")
             ELSE Ok(load_lines(EmptyMap, ls))

\* writeln!(file, "{count}\t{path}") for the entries in the order HashMap yields them.
RECURSIVE write_entries(_, _)
write_entries(frequency_map, order) ==
    IF order = <<>> THEN <<>>
    ELSE u32_to_string(frequency_map[Head(order)]) \o <<TAB>> \o Head(order) \o <<NL>>
         \o write_entries(frequency_map, Tail(order))

(***************************************************************************)
(* FrequencyManager::save: File::create truncates (or creates) the file,   *)
(* then every entry is written; order is the map's iteration order.        *)
(***************************************************************************)
save(f, frequency_map, order) ==
    [exists |-> TRUE,
     readable |-> IF f.exists THEN f.readable ELSE TRUE,
     bytes |-> write_entries(frequency_map, order)]

\* The persisted mapping: what a load of the file returns.
Stored(f) == load(f).val

(***************************************************************************)
(* The file system as the program sees it: "dir", "file" or "none" for     *)
(* each path.  Path::is_dir and Path::exists.                              *)
(***************************************************************************)
is_dir(fs, path) == path \in DOMAIN fs /\ fs[path] = "dir"

exists(fs, path) == path \in DOMAIN fs /\ fs[path] # "none"

(***************************************************************************)
(* DirectorySearcher::search.  locate is the outcome of running the locate *)
(* program: [launched, stdout], stdout being the lines it printed.         *)
(***************************************************************************)
SearchResult(directories, files_filtered) ==
    [directories |-> directories, files_filtered |-> files_filtered]

\* The first loop: the located paths that are directories.
located_directories(locate_paths, fs) ==
    {locate_paths[i] : i \in {j \in DOMAIN locate_paths : is_dir(fs, locate_paths[j])}}

\* The first loop's counter: one for each located path that is not a directory.
count_files(locate_paths, fs) ==
    Cardinality({i \in DOMAIN locate_paths : ~is_dir(fs, locate_paths[i])})

matching_keys_case_sensitive(pattern, frequency_map, fs) ==
    {path \in DOMAIN frequency_map : contains(path, pattern) /\ is_dir(fs, path)}

\* The second loop: the keys of the map that match the pattern and are directories.
matching_keys(pattern, frequency_map, fs) ==
    {path \in DOMAIN frequency_map :
        contains(to_lowercase(path), to_lowercase(pattern)) /\ is_dir(fs, path)}

unique_paths(pattern, frequency_map, locate_paths, fs) ==
    located_directories(locate_paths, fs) \cup matching_keys(pattern, frequency_map, fs)

\* unique_paths.into_iter().map(..).collect(): the entries in the set's iteration order.
to_entries(order, frequency_map) ==
    [i \in 1 .. Len(order) |-> DirectoryEntry(order[i], get_or_0(frequency_map, order[i]))]

search_no_empty_check(pattern, frequency_map, locate, fs, order) ==
    IF ~locate.launched THEN Err("LocateCommand")
    ELSE Ok(SearchResult(sort_directories(to_entries(order, frequency_map)),
                         count_files(locate.stdout, fs)))

\* order is the iteration order of the HashSet unique_paths, which the code does not fix.
search(pattern, frequency_map, locate, fs, order) ==
    IF ~locate.launched THEN Err("LocateCommand")
    ELSE IF unique_paths(pattern, frequency_map, locate.stdout, fs) = {}
    THEN Err("NoDirectoriesFound")
    ELSE Ok(SearchResult(sort_directories(to_entries(order, frequency_map)),
                         count_files(locate.stdout, fs)))

\* The results search can return: one for each iteration order of the set.
search_results(pattern, frequency_map, locate, fs) ==
    {search(pattern, frequency_map, locate, fs, order) :
        order \in Orders(IF locate.launched
                         THEN unique_paths(pattern, frequency_map, locate.stdout, fs)
                         ELSE {})}

(***************************************************************************)
(* App: the interactive picker's state.                                    *)
(***************************************************************************)
PAGE_SIZE == 10

App_new(frequency_map) ==
    [input |-> <<>>,
     directories |-> <<>>,
     list_state |-> None,
     should_quit |-> FALSE,
     user_selected |-> FALSE,
     frequency_map |-> frequency_map,
     view_mode |-> "Search",
     files_filtered |-> 0]

calculate_next_index(self) ==
    IF self.list_state = None THEN 0
    ELSE IF self.list_state[1] >= Len(self.directories) - 1 THEN 0
    ELSE self.list_state[1] + 1

calculate_previous_index(self) ==
    IF self.list_state = None THEN 0
    ELSE IF self.list_state[1] = 0 THEN Len(self.directories) - 1
    ELSE self.list_state[1] - 1

calculate_page_up_index(self) ==
    IF self.list_state # None /\ self.list_state[1] >= PAGE_SIZE
    THEN self.list_state[1] - PAGE_SIZE
    ELSE 0

calculate_page_down_index_unclamped(self) ==
    IF self.list_state = None THEN 0 ELSE self.list_state[1] + PAGE_SIZE

calculate_page_down_index(self) ==
    IF self.list_state = None THEN 0
    ELSE LET new_pos == self.list_state[1] + PAGE_SIZE
         IN  IF new_pos >= Len(self.directories) THEN Len(self.directories) - 1
             ELSE new_pos

NavigationDirection == {"Next", "Previous", "PageUp", "PageDown", "First", "Last"}

navigate(self, direction) ==
    IF self.directories = <<>> THEN self
    ELSE LET new_index ==
                 CASE direction = "Next" -> calculate_next_index(self)
                   [] direction = "Previous" -> calculate_previous_index(self)
                   [] direction = "PageUp" -> calculate_page_up_index(self)
                   [] direction = "PageDown" -> calculate_page_down_index(self)
                   [] direction = "First" -> 0
                   [] direction = "Last" -> Len(self.directories) - 1
         IN  [self EXCEPT !.list_state = Some(new_index)]

(***************************************************************************)
(* App's handlers.  search runs locate and reads the file system, and the  *)
(* HashSet and HashMap iteration orders are not fixed, so a handler that   *)
(* searches or lists yields a set of possible outcomes.                    *)
(***************************************************************************)
get_selected_directory(self) ==
    IF self.list_state # None /\ self.list_state[1] < Len(self.directories)
    THEN Some(self.directories[self.list_state[1] + 1].path)
    ELSE None

\* As select_first, but selecting index 0 also in an empty list.
select_zero(self) == [self EXCEPT !.list_state = Some(0)]

\* "Reset selection to first item if we have results"
select_first(self) ==
    [self EXCEPT !.list_state = IF self.directories # <<>> THEN Some(0) ELSE None]

\* The outcomes [self, ret] of search_directories: the App after it and its Result.
search_directories(self, locate, fs) ==
    IF self.input = <<>>
    THEN {[self |-> [self EXCEPT !.directories = <<>>, !.files_filtered = 0,
                                 !.list_state = None],
           ret |-> Ok(<<>>)]}
    ELSE {IF r.ok
          THEN [self |-> select_first([self EXCEPT !.directories = r.val.directories,
                                                   !.files_filtered = r.val.files_filtered]),
                ret |-> Ok(<<>>)]
          ELSE IF r.err = "NoDirectoriesFound"
          THEN [self |-> select_first([self EXCEPT !.directories = <<>>,
                                                   !.files_filtered = 0]),
                ret |-> Ok(<<>>)]
          ELSE [self |-> self, ret |-> r] :
          r \in search_results(self.input, self.frequency_map, locate, fs)}

\* Vec::retain with the input as a case-insensitive filter.
retain_matching(directories, input) ==
    SelectSeq(directories,
              LAMBDA entry : contains(to_lowercase(entry.path), to_lowercase(input)))

\* As show_frequent_directories, but listing the entries in the order the map yields them.
show_frequent_unsorted(self, fs) ==
    LET frequent == {path \in DOMAIN self.frequency_map :
                        self.frequency_map[path] > 0 /\ is_dir(fs, path)}
    IN  {LET frequent_dirs == to_entries(order, self.frequency_map)
         IN  select_first([self EXCEPT !.directories =
                               IF self.input # <<>>
                               THEN retain_matching(frequent_dirs, self.input)
                               ELSE frequent_dirs]) :
         order \in Orders(frequent)}

show_frequent_directories(self, fs) ==
    LET frequent == {path \in DOMAIN self.frequency_map :
                        self.frequency_map[path] > 0 /\ is_dir(fs, path)}
    IN  {LET frequent_dirs == sort_directories(to_entries(order, self.frequency_map))
         IN  select_first([self EXCEPT !.directories =
                               IF self.input # <<>>
                               THEN retain_matching(frequent_dirs, self.input)
                               ELSE frequent_dirs]) :
         order \in Orders(frequent)}

toggle_view_mode(self, locate, fs) ==
    IF self.view_mode = "Search"
    THEN show_frequent_directories([self EXCEPT !.view_mode = "Frequent"], fs)
    ELSE LET searching == [self EXCEPT !.view_mode = "Search"]
         IN  IF searching.input # <<>>
             THEN {r.self : r \in search_directories(searching, locate, fs)}
             ELSE {[searching EXCEPT !.directories = <<>>, !.list_state = None]}

\* "Apply search to current view mode"
apply_search(self, locate, fs) ==
    IF self.view_mode = "Search"
    THEN {r.self : r \in search_directories(self, locate, fs)}
    ELSE show_frequent_directories(self, fs)

handle_character_input(self, c, locate, fs) ==
    apply_search([self EXCEPT !.input = Append(@, c)], locate, fs)

handle_backspace(self, locate, fs) ==
    apply_search([self EXCEPT !.input = IF @ = <<>> THEN <<>>
                                        ELSE SubSeq(@, 1, Len(@) - 1)],
                 locate, fs)

\* As remove_at, but removing the last element whatever the index.
remove_last(s, index) == SubSeq(s, 1, Len(s) - 1)

\* Vec::remove(index), index counted from 0.
remove_at(s, index) == SubSeq(s, 1, index) \o SubSeq(s, index + 2, Len(s))

\* As position, but never finding the entry.
position_not_found(directories, path) == None

\* Iterator::position, counted from 0: the first entry with the path.
position(directories, path) ==
    IF \E i \in DOMAIN directories : directories[i].path = path
    THEN Some((CHOOSE i \in DOMAIN directories :
                  /\ directories[i].path = path
                  /\ \A j \in 1 .. i - 1 : directories[j].path # path) - 1)
    ELSE None

\* As reset_frequency, but in Search view leaving the rows in the order they had.
reset_frequency_unsorted(self, save_succeeds) ==
    IF get_selected_directory(self) = None
    THEN [self |-> self, ret |-> Ok(<<>>), saved |-> None]
    ELSE LET path == get_selected_directory(self)[1]
             selected_index == self.list_state[1]
             removed == [self EXCEPT !.frequency_map = map_remove(@, path)]
         IN  IF ~save_succeeds
             THEN [self |-> removed, ret |-> Err("IoError"), saved |-> None]
             ELSE IF self.view_mode = "Frequent"
             THEN LET directories == remove_at(removed.directories, selected_index)
                  IN  [self |-> [removed EXCEPT
                                    !.directories = directories,
                                    !.list_state =
                                        IF directories = <<>> THEN None
                                        ELSE IF selected_index >= Len(directories)
                                        THEN Some(Len(directories) - 1)
                                        ELSE Some(selected_index)],
                       ret |-> Ok(<<>>), saved |-> Some(removed.frequency_map)]
             ELSE [self |-> [removed EXCEPT
                                !.directories[selected_index + 1].count = 0],
                   ret |-> Ok(<<>>), saved |-> Some(removed.frequency_map)]

(***************************************************************************)
(* reset_frequency: [self, ret, saved].  saved is the map written to the   *)
(* store (None when nothing is selected or the save fails).                *)
(***************************************************************************)
reset_frequency(self, save_succeeds) ==
    IF get_selected_directory(self) = None
    THEN [self |-> self, ret |-> Ok(<<>>), saved |-> None]
    ELSE LET path == get_selected_directory(self)[1]
             selected_index == self.list_state[1]
             removed == [self EXCEPT !.frequency_map = map_remove(@, path)]
         IN  IF ~save_succeeds
             THEN [self |-> removed, ret |-> Err("IoError"), saved |-> None]
             ELSE IF self.view_mode = "Frequent"
             THEN LET directories == remove_at(removed.directories, selected_index)
                  IN  [self |-> [removed EXCEPT
                                    !.directories = directories,
                                    !.list_state =
                                        IF directories = <<>> THEN None
                                        ELSE IF selected_index >= Len(directories)
                                        THEN Some(Len(directories) - 1)
                                        ELSE Some(selected_index)],
                       ret |-> Ok(<<>>), saved |-> Some(removed.frequency_map)]
             ELSE LET directories ==
                          sort_directories([removed.directories EXCEPT
                                               ![selected_index + 1].count = 0])
                      new_index == position(directories, path)
                  IN  [self |-> [removed EXCEPT
                                    !.directories = directories,
                                    !.list_state = IF new_index # None THEN new_index
                                                   ELSE @],
                       ret |-> Ok(<<>>), saved |-> Some(removed.frequency_map)]

(***************************************************************************)
(* The inputs the specifications draw from.                                *)
(***************************************************************************)
Patterns == UNION {[1 .. k -> PatternChars] : k \in 1 .. MaxPattern}

UsageMaps == UNION {[S -> Counts] : S \in SUBSET Paths}

Disks == [Paths -> {"dir", "file", "none"}]

LocateOutcomes ==
    {[launched |-> FALSE, stdout |-> <<>>]}
    \cup {[launched |-> TRUE, stdout |-> out] : out \in SeqsUpTo(Paths, MaxLocate)}

\* A list of n rows for navigation, which reads only the list's length.
RowPath(i) == [j \in 1 .. i + 1 |-> IF j = 1 THEN "/" ELSE "a"]

Rows(n) == [i \in 1 .. n |-> DirectoryEntry(RowPath(i), 0)]

(***************************************************************************)
(* SpecSort: sort_directories applied to every slice of at most            *)
(* MaxSortLen entries.                                                     *)
(***************************************************************************)
SortInit ==
    /\ sortCall \in [pc : {"input"}, input : SeqsUpTo(Entries, MaxSortLen), output : {<<>>}]
    /\ searchCall = Unused
    /\ navCall = Unused
    /\ storeCall = Unused
    /\ file = Unused /\ disk = Unused /\ proc = Unused /\ app = Unused

SortCall ==
    /\ sortCall.pc = "input"
    /\ sortCall' = [sortCall EXCEPT !.pc = "sorted",
                                    !.output = sort_directories(sortCall.input)]
    /\ UNCHANGED <<searchCall, navCall, storeCall, sysVars>>

SortNext == SortCall

SpecSort == SortInit /\ [][SortNext]_vars

(***************************************************************************)
(* SpecSearch: DirectorySearcher::search applied to every pattern, usage   *)
(* map, locate outcome and file system within the bounds.                  *)
(***************************************************************************)
SearchInit ==
    /\ searchCall \in [pc : {"input"}, pattern : Patterns, frequency_map : UsageMaps,
                       locate : LocateOutcomes, disk : Disks, result : {None},
                       again : {None}]
    /\ sortCall = Unused
    /\ navCall = Unused
    /\ storeCall = Unused
    /\ file = Unused /\ disk = Unused /\ proc = Unused /\ app = Unused

SearchCall ==
    /\ searchCall.pc = "input"
    /\ \E r \in search_results(searchCall.pattern, searchCall.frequency_map,
                               searchCall.locate, searchCall.disk) :
           searchCall' = [searchCall EXCEPT !.pc = "done", !.result = r]
    /\ UNCHANGED <<sortCall, navCall, storeCall, sysVars>>

\* A second run of search on the same input: another process, another HashSet.
SearchAgain ==
    /\ searchCall.pc = "done"
    /\ \E r \in search_results(searchCall.pattern, searchCall.frequency_map,
                               searchCall.locate, searchCall.disk) :
           searchCall' = [searchCall EXCEPT !.pc = "again", !.again = r]
    /\ UNCHANGED <<sortCall, navCall, storeCall, sysVars>>

SearchNext == SearchCall \/ SearchAgain

SpecSearch == SearchInit /\ [][SearchNext]_vars

(***************************************************************************)
(* SpecNav: App::navigate applied in every direction to every list of at   *)
(* most MaxRows rows and every selection on it.                            *)
(***************************************************************************)
NavInit ==
    /\ \E n \in 0 .. MaxRows :
         \E selected \in {None} \cup {Some(i) : i \in 0 .. n - 1} :
             navCall = [pc |-> "input",
                        app |-> [App_new(EmptyMap) EXCEPT !.directories = Rows(n),
                                                          !.list_state = selected],
                        direction |-> "Next",
                        after |-> App_new(EmptyMap)]
    /\ sortCall = Unused
    /\ searchCall = Unused
    /\ storeCall = Unused
    /\ file = Unused /\ disk = Unused /\ proc = Unused /\ app = Unused

NavCall ==
    /\ navCall.pc = "input"
    /\ \E direction \in NavigationDirection :
           navCall' = [navCall EXCEPT !.pc = "done",
                                      !.direction = direction,
                                      !.after = navigate(navCall.app, direction)]
    /\ UNCHANGED <<sortCall, searchCall, storeCall, sysVars>>

NavNext == NavCall

SpecNav == NavInit /\ [][NavNext]_vars

(***************************************************************************)
(* C1: the output of sort_directories is a permutation of its input in     *)
(* which every adjacent pair (a, b) has a.count > b.count, or equal counts *)
(* and len(a.path) <= len(b.path).                                         *)
(***************************************************************************)
RankedPair(a, b) ==
    \/ a.count > b.count
    \/ a.count = b.count /\ Len(a.path) <= Len(b.path)

IsRanked(s) == \A i \in 1 .. Len(s) - 1 : RankedPair(s[i], s[i + 1])

C1_SortedPermutation ==
    sortCall.pc = "sorted" =>
        IsPermutation(sortCall.output, sortCall.input) /\ IsRanked(sortCall.output)

\* A call that had to move entries both by count and by path length.
C1_Witness ==
    /\ sortCall.pc = "sorted"
    /\ Len(sortCall.input) = 3
    /\ sortCall.input[1].count < sortCall.input[2].count
    /\ sortCall.input[2].count = sortCall.input[3].count
    /\ Len(sortCall.input[2].path) > Len(sortCall.input[3].path)
    /\ sortCall.output = <<sortCall.input[3], sortCall.input[2], sortCall.input[1]>>

(***************************************************************************)
(* What the claims say of a search, stated without the program's own       *)
(* operators: a letter matches itself and its other case.                  *)
(***************************************************************************)
SameLetter(c, d) == c = d \/ {c, d} \in {{"a", "A"}, {"b", "B"}}

ContainsIgnoringCase(haystack, needle) ==
    \E i \in 0 .. (Len(haystack) - Len(needle)) :
        \A j \in 1 .. Len(needle) : SameLetter(haystack[i + j], needle[j])

\* The lookup paths that are directories, and the usage-map keys that contain
\* the pattern (ignoring case) and are directories.
ClaimedCandidates(pattern, usage, lookup, fs) ==
    {p \in Range(lookup) : fs[p] = "dir"}
    \cup {p \in DOMAIN usage : ContainsIgnoringCase(p, pattern) /\ p \in DOMAIN fs
                               /\ fs[p] = "dir"}

SearchCandidates ==
    ClaimedCandidates(searchCall.pattern, searchCall.frequency_map,
                      searchCall.locate.stdout, searchCall.disk)

(***************************************************************************)
(* C3: when the lookup ran and there is at least one directory candidate,  *)
(* search succeeds; its directories are, without duplicates, exactly the   *)
(* lookup paths that are directories and the usage-map keys that contain   *)
(* the pattern ignoring case and are directories; each carries its count   *)
(* in the usage map, or 0; files_filtered is the number of lookup paths    *)
(* that are not directories.                                               *)
(***************************************************************************)
C3_SearchUnion ==
    (searchCall.pc = "done" /\ searchCall.locate.launched /\ SearchCandidates # {}) =>
        /\ searchCall.result.ok
        /\ LET dirs == searchCall.result.val.directories
               usage == searchCall.frequency_map
               lookup == searchCall.locate.stdout
           IN  /\ {dirs[i].path : i \in DOMAIN dirs} = SearchCandidates
               /\ Len(dirs) = Cardinality(SearchCandidates)
               /\ \A i \in DOMAIN dirs :
                      dirs[i].count = IF dirs[i].path \in DOMAIN usage
                                      THEN usage[dirs[i].path] ELSE 0
               /\ searchCall.result.val.files_filtered =
                      Cardinality({i \in DOMAIN lookup : searchCall.disk[lookup[i]] # "dir"})

\* The lookup names a used directory and a file; the usage map adds a directory
\* that matches only when case is ignored, and holds a key that does not match.
C3_Witness ==
    /\ searchCall.pc = "done"
    /\ searchCall.pattern = <<"B">>
    /\ searchCall.locate = [launched |-> TRUE, stdout |-> <<PathB, PathA>>]
    /\ searchCall.disk = [p \in Paths |-> IF p = PathA THEN "file" ELSE "dir"]
    /\ searchCall.frequency_map = (PathB :> 2 @@ PathAB :> 1 @@ PathA :> 1)
    /\ searchCall.result =
           Ok(SearchResult(<<DirectoryEntry(PathB, 2), DirectoryEntry(PathAB, 1)>>, 1))

(***************************************************************************)
(* C4: when the lookup ran and neither it nor the usage-map scan yields a  *)
(* directory, search returns NoDirectoriesFound; every successful result   *)
(* has at least one directory.                                             *)
(***************************************************************************)
C4_NoEmptySuccess ==
    searchCall.pc = "done" =>
        /\ (searchCall.locate.launched /\ SearchCandidates = {}) =>
               searchCall.result = Err("NoDirectoriesFound")
        /\ searchCall.result.ok => Len(searchCall.result.val.directories) >= 1

\* The lookup returned only files and the matching key is no directory any more.
C4_Witness ==
    /\ searchCall.pc = "done"
    /\ searchCall.locate.launched
    /\ searchCall.locate.stdout # <<>>
    /\ \E p \in DOMAIN searchCall.frequency_map :
           ContainsIgnoringCase(p, searchCall.pattern) /\ searchCall.disk[p] = "none"
    /\ searchCall.result = Err("NoDirectoriesFound")

(***************************************************************************)
(* C10: on a list of n > 0 rows, Next selects 0 from no selection, wraps   *)
(* from n-1 to 0 and otherwise adds 1; Previous wraps from 0 to n-1 and    *)
(* otherwise subtracts 1; PageUp and PageDown move by 10, clamped to 0 and *)
(* n-1; First selects 0 and Last n-1.  On an empty list nothing changes.   *)
(* Navigation changes nothing but the selection.                           *)
(***************************************************************************)
Min(x, y) == IF x <= y THEN x ELSE y
Max(x, y) == IF x >= y THEN x ELSE y

C10_Navigation ==
    navCall.pc = "done" =>
        LET n == Len(navCall.app.directories)
            sel == navCall.app.list_state
            new == navCall.after.list_state
            d == navCall.direction
        IN  /\ navCall.after = [navCall.app EXCEPT !.list_state = new]
            /\ n = 0 => new = sel
            /\ n > 0 =>
                /\ (d = "Next" /\ sel = None) => new = Some(0)
                /\ (d = "Next" /\ sel = Some(n - 1)) => new = Some(0)
                /\ (d = "Next" /\ sel # None /\ sel # Some(n - 1)) => new = Some(sel[1] + 1)
                /\ (d = "Previous" /\ sel = Some(0)) => new = Some(n - 1)
                /\ (d = "Previous" /\ sel # None /\ sel # Some(0)) => new = Some(sel[1] - 1)
                /\ (d = "PageUp" /\ sel # None) => new = Some(Max(sel[1] - 10, 0))
                /\ (d = "PageDown" /\ sel # None) => new = Some(Min(sel[1] + 10, n - 1))
                /\ d = "First" => new = Some(0)
                /\ d = "Last" => new = Some(n - 1)

\* A page down that is clamped to the last row.
C10_Witness ==
    /\ navCall.pc = "done"
    /\ navCall.direction = "PageDown"
    /\ Len(navCall.app.directories) = 15
    /\ navCall.app.list_state = Some(7)
    /\ navCall.after.list_state = Some(14)

(***************************************************************************)
(* The processes.  Every invocation of ccd-pick is a process of its own;   *)
(* a process record holds the command run() dispatched to, the position in *)
(* it, its locals (arg: the path or pattern; frequency_map: the map it     *)
(* loaded; result: its search result; key: the key event run_app last      *)
(* read) and what it has produced (stdout, fd3, stderr, exit code).        *)
(* Each load, each save, each locate run with its classification and each  *)
(* check of the target directory is one step.                              *)
(***************************************************************************)
Procs == {1, 2}

IdleProc ==
    [cmd |-> "none", pc |-> "idle", arg |-> <<>>, frequency_map |-> EmptyMap,
     result |-> None, key |-> None, stdout |-> None, fd3 |-> None,
     stderr |-> "", exit |-> None]

\* The process ends: main's exit(1) after "Error: ...", an explicit exit(1), or a return.
Exit(pr, code, message) ==
    [pr EXCEPT !.pc = "done", !.exit = Some(code), !.stderr = message]

Step(p, pr) == proc' = [proc EXCEPT ![p] = pr]

(***************************************************************************)
(* run(): the dispatch on the arguments.                                   *)
(***************************************************************************)
RunIncrement(p) ==
    /\ proc[p].pc = "idle"
    /\ \E path \in Paths :
           Step(p, [IdleProc EXCEPT !.cmd = "increment", !.pc = "inc_load", !.arg = path])
    /\ UNCHANGED <<callVars, file, disk, app>>

\* env::current_dir() fails, or names a directory.
RunBookmark(p) ==
    /\ proc[p].pc = "idle"
    /\ \/ Step(p, Exit([IdleProc EXCEPT !.cmd = "bookmark"], 1, "Error: IO error"))
       \/ \E current_dir \in {path \in Paths : is_dir(disk, path)} :
              Step(p, [IdleProc EXCEPT !.cmd = "bookmark", !.pc = "bm_load",
                                       !.arg = current_dir])
    /\ UNCHANGED <<callVars, file, disk, app>>

RunSearch(p) ==
    /\ proc[p].pc = "idle"
    /\ \E search_pattern \in Patterns :
           Step(p, [IdleProc EXCEPT !.cmd = "search", !.pc = "search_load",
                                    !.arg = search_pattern])
    /\ UNCHANGED <<callVars, file, disk, app>>

(***************************************************************************)
(* FrequencyManager::increment, called by run() for --increment and by     *)
(* run_interactive_mode for the selected directory.  The count is a u32;   *)
(* every process increments once, so the model's counts stay far from      *)
(* u32::MAX.                                                               *)
(***************************************************************************)
increment_count_by_two(frequency_map, path) ==
    map_insert(frequency_map, path, get_or_0(frequency_map, path) + 2)

increment_count(frequency_map, path) ==
    map_insert(frequency_map, path, get_or_0(frequency_map, path) + 1)

IncrementLoad(p) ==
    /\ proc[p].pc = "inc_load"
    /\ LET loaded == load(file)
       IN  IF ~loaded.ok THEN Step(p, Exit(proc[p], 1, "Error: IO error"))
           ELSE Step(p, [proc[p] EXCEPT !.pc = "inc_save", !.frequency_map = loaded.val])
    /\ UNCHANGED <<callVars, file, disk, app>>

\* The rest of increment after a successful save: run() returns, or the path is delivered.
AfterIncrement(pr) ==
    IF pr.cmd = "interactive" THEN [pr EXCEPT !.pc = "deliver"] ELSE Exit(pr, 0, "")

\* As IncrementSave, but counting from the store as it is when it writes.
IncrementSaveReloading(p) ==
    /\ proc[p].pc = "inc_save"
    /\ LET frequency_map == increment_count(Stored(file), proc[p].arg)
           pr == [proc[p] EXCEPT !.frequency_map = frequency_map]
       IN  \/ /\ \E order \in Orders(DOMAIN frequency_map) :
                     file' = save(file, frequency_map, order)
              /\ Step(p, AfterIncrement(pr))
           \/ /\ UNCHANGED file
              /\ Step(p, Exit(pr, 1, "Error: IO error"))
    /\ UNCHANGED <<callVars, disk, app>>

IncrementSave(p) ==
    /\ proc[p].pc = "inc_save"
    /\ LET frequency_map == increment_count(proc[p].frequency_map, proc[p].arg)
           pr == [proc[p] EXCEPT !.frequency_map = frequency_map]
       IN  \/ /\ \E order \in Orders(DOMAIN frequency_map) :
                     file' = save(file, frequency_map, order)
              /\ Step(p, AfterIncrement(pr))
           \/ /\ UNCHANGED file
              /\ Step(p, Exit(pr, 1, "Error: IO error"))
    /\ UNCHANGED <<callVars, disk, app>>

(***************************************************************************)
(* bookmark_current_directory                                              *)
(***************************************************************************)
BookmarkLoad(p) ==
    /\ proc[p].pc = "bm_load"
    /\ LET loaded == load(file)
       IN  IF ~loaded.ok THEN Step(p, Exit(proc[p], 1, "Error: IO error"))
           ELSE Step(p, [proc[p] EXCEPT !.pc = "bm_insert", !.frequency_map = loaded.val])
    /\ UNCHANGED <<callVars, file, disk, app>>

\* As BookmarkInsert, but setting the count to 1 whether or not the path is a key.
BookmarkInsertAlways(p) ==
    /\ proc[p].pc = "bm_insert"
    /\ LET frequency_map == map_insert(proc[p].frequency_map, proc[p].arg, 1)
           pr == [proc[p] EXCEPT !.frequency_map = frequency_map]
       IN  /\ \E order \in Orders(DOMAIN frequency_map) :
                  file' = save(file, frequency_map, order)
           /\ Step(p, Exit(pr, 0, "Bookmarked"))
    /\ UNCHANGED <<callVars, disk, app>>

BookmarkInsert(p) ==
    /\ proc[p].pc = "bm_insert"
    /\ IF ~contains_key(proc[p].frequency_map, proc[p].arg)
       THEN LET frequency_map == map_insert(proc[p].frequency_map, proc[p].arg, 1)
                pr == [proc[p] EXCEPT !.frequency_map = frequency_map]
            IN  \/ /\ \E order \in Orders(DOMAIN frequency_map) :
                          file' = save(file, frequency_map, order)
                   /\ Step(p, Exit(pr, 0, "Bookmarked"))
                \/ /\ UNCHANGED file
                   /\ Step(p, Exit(pr, 1, "Error: IO error"))
       ELSE /\ UNCHANGED file
            /\ Step(p, Exit(proc[p], 0, "Directory already bookmarked"))
    /\ UNCHANGED <<callVars, disk, app>>

(***************************************************************************)
(* search_and_change_directory                                             *)
(***************************************************************************)
SearchLoad(p) ==
    /\ proc[p].pc = "search_load"
    /\ LET loaded == load(file)
       IN  IF ~loaded.ok THEN Step(p, Exit(proc[p], 1, "Error: IO error"))
           ELSE Step(p, [proc[p] EXCEPT !.pc = "search", !.frequency_map = loaded.val])
    /\ UNCHANGED <<callVars, file, disk, app>>

SearchLocate(p) ==
    /\ proc[p].pc = "search"
    /\ \E locate \in LocateOutcomes :
         \E r \in search_results(proc[p].arg, proc[p].frequency_map, locate, disk) :
             IF r.ok
             THEN Step(p, [proc[p] EXCEPT !.pc = "search_verify", !.result = Some(r.val)])
             ELSE IF r.err = "NoDirectoriesFound"
             THEN Step(p, Exit(proc[p], 1, "No directories found"))
             ELSE Step(p, Exit(proc[p], 1, "Error: Locate command error"))
    /\ UNCHANGED <<callVars, file, disk, app>>

\* As SearchVerify, but counting the printed directory as used.
SearchVerifyCounting(p) ==
    /\ proc[p].pc = "search_verify"
    /\ LET target_dir == proc[p].result[1].directories[1].path
           frequency_map == increment_count(proc[p].frequency_map, target_dir)
       IN  IF ~is_dir(disk, target_dir)
           THEN /\ Step(p, Exit(proc[p], 1, "Error: Directory not found"))
                /\ UNCHANGED file
           ELSE /\ Step(p, Exit([proc[p] EXCEPT !.stdout = Some(target_dir)], 0, "Found"))
                /\ \E order \in Orders(DOMAIN frequency_map) :
                       file' = save(file, frequency_map, order)
    /\ UNCHANGED <<callVars, disk, app>>

\* As SearchVerify, but printing the first entry without looking at the file system.
SearchVerifyUnchecked(p) ==
    /\ proc[p].pc = "search_verify"
    /\ LET target_dir == proc[p].result[1].directories[1].path
       IN  Step(p, Exit([proc[p] EXCEPT !.stdout = Some(target_dir)], 0, "Found"))
    /\ UNCHANGED <<callVars, file, disk, app>>

SearchVerify(p) ==
    /\ proc[p].pc = "search_verify"
    /\ LET target_dir == proc[p].result[1].directories[1].path
       IN  IF ~exists(disk, target_dir)
           THEN Step(p, Exit(proc[p], 1, "Error: Directory not found"))
           ELSE IF ~is_dir(disk, target_dir)
           THEN Step(p, Exit(proc[p], 1, "Error: Directory not found"))
           ELSE Step(p, Exit([proc[p] EXCEPT !.stdout = Some(target_dir)], 0, "Found"))
    /\ UNCHANGED <<callVars, file, disk, app>>

(***************************************************************************)
(* The surroundings: while the processes run a directory is removed, or    *)
(* removed and a plain file put in its place.                              *)
(***************************************************************************)
RemoveDir(path) ==
    /\ disk[path] = "dir"
    /\ \E kind \in {"none", "file"} : disk' = [disk EXCEPT ![path] = kind]
    /\ UNCHANGED <<callVars, file, proc, app>>

(***************************************************************************)
(* Spec: two command-line processes interleaved in every way, from every   *)
(* store file and file system the model starts from.  Each runs one        *)
(* command: process 1 any of increment, bookmark and one-shot search,      *)
(* process 2 one of the two that write the store (two one-shot searches    *)
(* only read, and do not meet).                                            *)
(***************************************************************************)
NoFile == [exists |-> FALSE, readable |-> FALSE, bytes |-> <<>>]

FileOf(bytes) == [exists |-> TRUE, readable |-> TRUE, bytes |-> bytes]

\* A store the program wrote, one edited by hand: a count of 0, a line
\* without a tab, a count that is no number, a path listed twice; and one whose
\* bytes are not UTF-8.
InitFiles ==
    {NoFile,
     FileOf(<<InvalidUtf8, NL>>),
     FileOf(<<"1", TAB>> \o PathA \o <<NL>>),
     FileOf(<<"0", TAB>> \o PathB \o <<NL, "x", NL, "x", TAB>> \o PathA
            \o <<NL, "1", TAB>> \o PathAB \o <<NL, "2", TAB>> \o PathAB \o <<NL>>)}

\* Every path a directory, or one of them a plain file.
InitDisks == {d \in [Paths -> {"dir", "file"}] : \A p \in Paths \ {PathB} : d[p] = "dir"}

Init ==
    /\ sortCall = Unused /\ searchCall = Unused /\ navCall = Unused
    /\ storeCall = Unused
    /\ file \in InitFiles
    /\ disk \in InitDisks
    /\ proc = [p \in Procs |-> IdleProc]
    /\ app = Unused

Next ==
    \/ \E p \in Procs :
        \/ RunIncrement(p) \/ IncrementLoad(p) \/ IncrementSave(p)
        \/ RunBookmark(p) \/ BookmarkLoad(p) \/ BookmarkInsert(p)
    \/ RunSearch(1) \/ SearchLoad(1) \/ SearchLocate(1) \/ SearchVerify(1)
    \/ \E path \in Paths : RemoveDir(path)

Spec == Init /\ [][Next]_vars

(***************************************************************************)
(* Steps of a process p, as the claims speak of them.                      *)
(***************************************************************************)
\* increment's save succeeded in this step.
IncrementSaved(p) ==
    /\ proc[p].pc = "inc_save"
    /\ proc'[p].pc \in {"done", "deliver"}
    /\ proc'[p].exit # Some(1)

\* No writer has changed the store since p loaded it: it holds the map p loaded.
StoreAsLoaded(p) == load(file).ok /\ Stored(file) = proc[p].frequency_map

\* The mapping m with the count of path raised by one (from 0 when it is absent).
WithOneMore(m, path) ==
    [k \in DOMAIN m \cup {path} |->
        IF k = path THEN (IF path \in DOMAIN m THEN m[path] ELSE 0) + 1 ELSE m[k]]

(***************************************************************************)
(* C2: two increments of the same path with no locking.  When the second   *)
(* to save had read the same count old as the first (load, load, save,     *)
(* save), its save leaves the stored count at old+1, the value the first   *)
(* wrote: one increment is lost.  When it had loaded what the first saved  *)
(* (one after the other), its save leaves old+2.                           *)
(***************************************************************************)
C2_LostIncrement ==
    [][\A p, q \in Procs :
          (/\ p # q
           /\ proc[p].cmd = "increment" /\ proc[q].cmd = "increment"
           /\ proc[p].arg = proc[q].arg
           /\ proc[p].pc = "done" /\ proc[p].exit = Some(0)
           /\ StoreAsLoaded(p)
           /\ IncrementSaved(q))
          => LET path == proc[q].arg
                 first_wrote == proc[p].frequency_map[path]
                 second_read == IF path \in DOMAIN proc[q].frequency_map
                                THEN proc[q].frequency_map[path] ELSE 0
             IN  /\ load(file').ok
                 /\ second_read + 1 = first_wrote => Stored(file')[path] = first_wrote
                 /\ second_read = first_wrote => Stored(file')[path] = first_wrote + 1
                 /\ second_read + 1 = first_wrote \/ second_read = first_wrote
      ]_vars

\* Both increments of /a are done, both wrote 2 over the stored 1, and 2 is stored.
C2_Witness ==
    /\ \A p \in Procs :
           /\ proc[p].cmd = "increment" /\ proc[p].arg = PathA
           /\ proc[p].pc = "done" /\ proc[p].exit = Some(0)
           /\ proc[p].frequency_map = (PathA :> 2)
    /\ Stored(file) = (PathA :> 2)

C6_Bookmark ==
    [][\A p \in Procs :
          (proc[p].pc = "bm_insert" /\ proc'[p].pc = "done")
          => IF proc[p].arg \in DOMAIN proc[p].frequency_map
             THEN /\ file' = file
                  /\ proc'[p].frequency_map = proc[p].frequency_map
                  /\ proc'[p].stderr = "Directory already bookmarked"
                  /\ proc'[p].exit = Some(0)
             ELSE proc'[p].exit = Some(0) =>
                      /\ load(file').ok
                      /\ Stored(file') = [k \in DOMAIN proc[p].frequency_map \cup {proc[p].arg} |->
                                             IF k = proc[p].arg THEN 1
                                             ELSE proc[p].frequency_map[k]]
                      /\ proc'[p].stderr = "Bookmarked"
      ]_vars

\* A directory stored with count 2 was bookmarked again: still 2, and success.
C6_Witness ==
    /\ proc[2].pc = "idle"
    /\ proc[1].cmd = "bookmark" /\ proc[1].arg = PathAB
    /\ proc[1].pc = "done" /\ proc[1].exit = Some(0)
    /\ proc[1].stderr = "Directory already bookmarked"
    /\ Stored(file) = (PathB :> 0 @@ PathAB :> 2)

(***************************************************************************)
(* C7: no step of a one-shot search writes the usage store, whatever its   *)
(* outcome.                                                                *)
(***************************************************************************)
C7_SearchWritesNothing ==
    [][\A p \in Procs :
          ((proc[p].cmd = "search" \/ proc'[p].cmd = "search") /\ proc'[p] # proc[p])
          => file' = file
      ]_vars

\* A one-shot search has printed a directory that the store counts.
C7_Witness ==
    /\ proc[1].cmd = "search" /\ proc[1].pc = "done"
    /\ proc[1].stdout = Some(PathAB)
    /\ proc[2].pc = "idle"
    /\ Stored(file) = (PathB :> 0 @@ PathAB :> 2)

(***************************************************************************)
(* run_interactive_mode and run_app.  Browsing is pc = "run_app"; an event *)
(* that sets should_quit leaves the loop (pc = "after_loop") in the state  *)
(* Selected (user_selected) or Quitting.                                   *)
(***************************************************************************)
\* enable_raw_mode or the terminal set-up fails, or the terminal is ready.
RunInteractive(p) ==
    /\ proc[p].pc = "idle"
    /\ \/ Step(p, Exit([IdleProc EXCEPT !.cmd = "interactive"], 1, "Error: IO error"))
       \/ Step(p, [IdleProc EXCEPT !.cmd = "interactive", !.pc = "app_new"])
    /\ UNCHANGED <<callVars, file, disk, app>>

\* App::new()?: a store that cannot be loaded ends the process before the loop.
AppNew(p) ==
    /\ proc[p].pc = "app_new"
    /\ LET loaded == load(file)
       IN  IF ~loaded.ok
           THEN /\ Step(p, Exit(proc[p], 1, "Error: IO error"))
                /\ UNCHANGED app
           ELSE /\ Step(p, [proc[p] EXCEPT !.pc = "run_app"])
                /\ app' = App_new(loaded.val)
    /\ UNCHANGED <<callVars, file, disk>>

\* One turn of run_app's loop: the key was read and handled, leaving the App as
\* self; the loop ends when should_quit is set.
Handled(p, key, self) ==
    /\ app' = self
    /\ Step(p, [proc[p] EXCEPT !.key = key,
                               !.pc = IF self.should_quit THEN "after_loop" ELSE "run_app"])

\* KeyCode::Char('q') | KeyCode::Esc
KeyQuit(p) ==
    /\ proc[p].pc = "run_app"
    /\ Handled(p, <<"Esc">>, [app EXCEPT !.should_quit = TRUE])
    /\ UNCHANGED <<callVars, file, disk>>

\* As KeyEnter, but confirming whether or not a row is selected.
KeyEnterAlways(p) ==
    /\ proc[p].pc = "run_app"
    /\ Handled(p, <<"Enter">>, [app EXCEPT !.user_selected = TRUE, !.should_quit = TRUE])
    /\ UNCHANGED <<callVars, file, disk>>

\* KeyCode::Enter
KeyEnter(p) ==
    /\ proc[p].pc = "run_app"
    /\ Handled(p, <<"Enter">>,
               IF get_selected_directory(app) # None
               THEN [app EXCEPT !.user_selected = TRUE, !.should_quit = TRUE]
               ELSE app)
    /\ UNCHANGED <<callVars, file, disk>>

\* KeyCode::Tab
KeyTab(p) ==
    /\ proc[p].pc = "run_app"
    /\ \E locate \in LocateOutcomes :
         \E self \in toggle_view_mode(app, locate, disk) : Handled(p, <<"Tab">>, self)
    /\ UNCHANGED <<callVars, file, disk>>

\* KeyCode::Char(c), for inputs of at most n characters.
KeyCharUpTo(p, n) ==
    /\ proc[p].pc = "run_app"
    /\ Len(app.input) < n
    /\ \E c \in PatternChars :
         \E locate \in LocateOutcomes :
           \E self \in handle_character_input(app, c, locate, disk) :
               Handled(p, <<"Char", c>>, self)
    /\ UNCHANGED <<callVars, file, disk>>

\* KeyCode::Char(c), for inputs of at most MaxPattern characters.
KeyChar(p) == KeyCharUpTo(p, MaxPattern)

\* KeyCode::Backspace
KeyBackspace(p) ==
    /\ proc[p].pc = "run_app"
    /\ \E locate \in LocateOutcomes :
         \E self \in handle_backspace(app, locate, disk) :
             Handled(p, <<"Backspace">>, self)
    /\ UNCHANGED <<callVars, file, disk>>

\* KeyCode::Down, Up, PageUp, PageDown, Home, End
KeyNavigate(p) ==
    /\ proc[p].pc = "run_app"
    /\ \E direction \in NavigationDirection :
           Handled(p, <<"Navigate", direction>>, navigate(app, direction))
    /\ UNCHANGED <<callVars, file, disk>>

\* KeyCode::Delete with SHIFT: "let _ = app.reset_frequency()"
\* As KeyShiftDelete, but with "app.reset_frequency()?": a failed save ends run_app.
KeyShiftDeleteFatal(p) ==
    /\ proc[p].pc = "run_app"
    /\ \E save_succeeds \in BOOLEAN :
         LET reset == reset_frequency(app, save_succeeds)
         IN  IF reset.ret.ok
             THEN /\ Handled(p, <<"ShiftDelete">>, reset.self)
                  /\ IF reset.saved # None
                     THEN \E order \in Orders(DOMAIN reset.saved[1]) :
                              file' = save(file, reset.saved[1], order)
                     ELSE UNCHANGED file
             ELSE /\ app' = reset.self
                  /\ Step(p, Exit([proc[p] EXCEPT !.key = <<"ShiftDelete">>], 1,
                                  "terminal error"))
                  /\ UNCHANGED file
    /\ UNCHANGED <<callVars, disk>>

KeyShiftDelete(p) ==
    /\ proc[p].pc = "run_app"
    /\ \E save_succeeds \in BOOLEAN :
         LET reset == reset_frequency(app, save_succeeds)
         IN  /\ Handled(p, <<"ShiftDelete">>, reset.self)
             /\ IF reset.saved # None
                THEN \E order \in Orders(DOMAIN reset.saved[1]) :
                         file' = save(file, reset.saved[1], order)
                ELSE UNCHANGED file
    /\ UNCHANGED <<callVars, disk>>

\* Any other key: "_ => {}"
KeyOther(p) ==
    /\ proc[p].pc = "run_app"
    /\ Handled(p, <<"Other">>, app)
    /\ UNCHANGED <<callVars, file, disk>>

\* terminal.draw or event::read fails: run_app returns Err, and the process exits 1.
\* The App and the loop's key go with the process.
ReadEventFails(p) ==
    /\ proc[p].pc = "run_app"
    /\ Step(p, Exit([proc[p] EXCEPT !.key = None], 1, "terminal error"))
    /\ app' = Unused
    /\ UNCHANGED <<callVars, file, disk>>

\* As AfterLoop, but delivering the selection without counting it.
AfterLoopUncounted(p) ==
    /\ proc[p].pc = "after_loop"
    /\ LET pr == [proc[p] EXCEPT !.key = None]
       IN  IF app.user_selected /\ get_selected_directory(app) # None
           THEN Step(p, [pr EXCEPT !.pc = "deliver", !.arg = get_selected_directory(app)[1]])
           ELSE Step(p, Exit(pr, 1, ""))
    /\ app' = Unused
    /\ UNCHANGED <<callVars, file, disk>>

\* The match on run_app's result: a selection is counted (increment), then delivered;
\* quitting without one is exit(1).  From here on the App is read only through
\* selected_dir, which the process keeps as arg.
AfterLoop(p) ==
    /\ proc[p].pc = "after_loop"
    /\ LET pr == [proc[p] EXCEPT !.key = None]
       IN  IF app.user_selected
           THEN IF get_selected_directory(app) # None
                THEN Step(p, [pr EXCEPT !.pc = "inc_load",
                                        !.arg = get_selected_directory(app)[1]])
                ELSE Step(p, Exit(pr, 0, ""))
           ELSE Step(p, Exit(pr, 1, ""))
    /\ app' = Unused
    /\ UNCHANGED <<callVars, file, disk>>

\* The selected directory is written to file descriptor 3 if it is open, else to
\* standard output; a failed write to descriptor 3 is an error.
Deliver(p) ==
    /\ proc[p].pc = "deliver"
    /\ \/ Step(p, Exit([proc[p] EXCEPT !.fd3 = Some(proc[p].arg)], 0, ""))
       \/ Step(p, Exit(proc[p], 1, "Error: IO error"))
       \/ Step(p, Exit([proc[p] EXCEPT !.stdout = Some(proc[p].arg)], 0, ""))
    /\ UNCHANGED <<callVars, file, disk, app>>

(***************************************************************************)
(* SpecSession: process 1 runs the interactive picker while process 2 runs *)
(* `ccd --increment /a`, a command that writes the store the session read  *)
(* at startup and writes again on reset and on selection.                  *)
(***************************************************************************)
SessionInit ==
    /\ sortCall = Unused /\ searchCall = Unused /\ navCall = Unused
    /\ storeCall = Unused
    /\ file \in InitFiles
    /\ disk \in InitDisks
    /\ proc = [p \in Procs |-> IdleProc]
    /\ app = Unused

SessionNext ==
    \/ RunInteractive(1) \/ AppNew(1)
    \/ KeyQuit(1) \/ KeyEnter(1) \/ KeyTab(1) \/ KeyChar(1) \/ KeyBackspace(1)
    \/ KeyNavigate(1) \/ KeyShiftDelete(1) \/ KeyOther(1) \/ ReadEventFails(1)
    \/ AfterLoop(1) \/ Deliver(1)
    \/ \E p \in Procs : IncrementLoad(p) \/ IncrementSave(p)
    \/ RunIncrement(2) /\ proc'[2].arg = PathA

SpecSession == SessionInit /\ [][SessionNext]_vars

(***************************************************************************)
(* C8: in interactive mode a confirmed selection is counted before it is   *)
(* delivered.  Leaving the loop in Selected, the session takes the         *)
(* selected row's path and goes on to increment it, having delivered       *)
(* nothing; it reaches the delivery only through increment's successful    *)
(* save, which stores for that path one more than the count loaded (and,   *)
(* with no concurrent writer, changes no other entry); what is delivered,  *)
(* on descriptor 3 or standard output, is that same path, and the process  *)
(* then exits 0.                                                           *)
(***************************************************************************)
C8_SelectionCounted ==
    [][ /\ (proc[1].pc = "after_loop" /\ app.user_selected /\ proc'[1] # proc[1])
           => /\ proc'[1].pc = "inc_load"
              /\ get_selected_directory(app) = Some(proc'[1].arg)
              /\ proc'[1].stdout = None /\ proc'[1].fd3 = None
        /\ (proc[1].pc # "deliver" /\ proc'[1].pc = "deliver")
           => /\ IncrementSaved(1)
              /\ proc'[1].arg = proc[1].arg
              /\ load(file').ok
              /\ Stored(file')[proc[1].arg]
                     = get_or_0(proc[1].frequency_map, proc[1].arg) + 1
              /\ StoreAsLoaded(1)
                     => Stored(file') = WithOneMore(Stored(file), proc[1].arg)
        /\ (proc'[1].stdout # proc[1].stdout \/ proc'[1].fd3 # proc[1].fd3)
           => /\ proc[1].pc = "deliver"
              /\ {proc'[1].stdout, proc'[1].fd3} = {None, Some(proc[1].arg)}
              /\ proc'[1].pc = "done" /\ proc'[1].exit = Some(0)
      ]_vars

\* The session selected /a/b, stored with count 2, and delivered it on descriptor 3
\* with the count stored as 3; the other process never ran.
C8_Witness ==
    /\ proc[1].cmd = "interactive" /\ proc[1].pc = "done" /\ proc[1].exit = Some(0)
    /\ proc[1].fd3 = Some(PathAB)
    /\ proc[2].pc = "idle"
    /\ Stored(file) = (PathB :> 0 @@ PathAB :> 3)

(***************************************************************************)
(* C9: the picker's state machine.  Browsing is the loop (pc "run_app"),   *)
(* Selected and Quitting are the loop left with and without user_selected. *)
(* A confirm event (Enter) with a row selected leaves the loop in Selected *)
(* with that row still the selected one, and its path is the one recorded  *)
(* for counting and delivery; with no row selected it changes nothing and  *)
(* the loop goes on.  A quit event (q or Esc) leaves the loop in Quitting, *)
(* whose only step ends the process with exit code 1 and nothing           *)
(* delivered; a path is delivered only with exit code 0.                   *)
(***************************************************************************)
C9_ConfirmAndQuit ==
    [][ /\ (proc[1].pc = "run_app" /\ proc'[1].key = <<"Enter">>)
           => IF get_selected_directory(app) # None
              THEN /\ proc'[1].pc = "after_loop"
                   /\ app'.user_selected
                   /\ get_selected_directory(app') = get_selected_directory(app)
              ELSE /\ proc'[1].pc = "run_app"
                   /\ app' = app
        /\ (proc[1].pc = "run_app" /\ proc'[1].key = <<"Esc">>)
           => /\ proc'[1].pc = "after_loop"
              /\ ~app'.user_selected
        /\ (proc[1].pc = "after_loop" /\ proc'[1] # proc[1])
           => IF app.user_selected
              THEN Some(proc'[1].arg) = get_selected_directory(app)
              ELSE /\ proc'[1].pc = "done" /\ proc'[1].exit = Some(1)
                   /\ proc'[1].stdout = None /\ proc'[1].fd3 = None
        /\ (proc'[1].stdout # None \/ proc'[1].fd3 # None)
           => proc'[1].exit = Some(0)
      ]_vars

\* Enter was pressed on the row of /a/b, and the loop is left in Selected.
C9_Witness ==
    /\ proc[1].pc = "after_loop" /\ proc[1].key = <<"Enter">>
    /\ app.user_selected /\ app.should_quit
    /\ get_selected_directory(app) = Some(PathAB)

(***************************************************************************)
(* C11: reset_frequency twice in a row on the same path, both saves        *)
(* succeeding.  The first reset writes the session's map without the       *)
(* path.  When the path is still the selected row afterwards (Search       *)
(* view), the second reset returns Ok, leaves the App exactly as the first *)
(* left it and writes the same mapping, so the store holds what it held    *)
(* after the first.  When it is not (Frequent view), the path is in        *)
(* neither the map nor the rows, and the reset with nothing selected       *)
(* returns Ok and changes nothing.                                         *)
(***************************************************************************)
C11_ResetTwice ==
    (proc[1].pc = "run_app" /\ get_selected_directory(app) # None)
    => LET path == get_selected_directory(app)[1]
           once == reset_frequency(app, TRUE)
           twice == reset_frequency(once.self, TRUE)
       IN  /\ once.ret = Ok(<<>>) /\ twice.ret = Ok(<<>>)
           /\ once.saved = Some(map_remove(app.frequency_map, path))
           /\ path \notin DOMAIN once.self.frequency_map
           /\ IF get_selected_directory(once.self) = Some(path)
              THEN /\ twice.self = once.self
                   /\ twice.saved = once.saved
                   /\ \A o1, o2 \in Orders(DOMAIN once.saved[1]) :
                          LET first == save(file, once.saved[1], o1)
                          IN  Stored(save(first, twice.saved[1], o2)) = Stored(first)
              ELSE /\ app.view_mode = "Frequent"
                   /\ \A i \in DOMAIN once.self.directories :
                          once.self.directories[i].path # path
                   /\ get_selected_directory(once.self) = None
                          => /\ twice.self = once.self
                             /\ twice.saved = None

\* The session, in Search view with two rows, has reset /a/b, whose row moved from the
\* first place to the second and is still the selected one; the store holds the
\* session's map, without /a/b.
C11_Witness ==
    /\ proc[1].pc = "run_app" /\ proc[1].key = <<"ShiftDelete">>
    /\ app.view_mode = "Search"
    /\ Len(app.directories) = 2
    /\ app.list_state = Some(1)
    /\ get_selected_directory(app) = Some(PathAB)
    /\ app.frequency_map = (PathB :> 0)
    /\ Stored(file) = (PathB :> 0)

(***************************************************************************)
(* SpecStore: FrequencyManager::save and load on their own.  Either a map  *)
(* of at most MaxEntries entries is saved, loaded, saved again as loaded   *)
(* and loaded again; or a file of at most MaxLines lines, as a user or     *)
(* another program may have left it, is loaded.                            *)
(***************************************************************************)
\* Keys: the model's paths, the empty string, a digit, and paths with a carriage
\* return, a line feed or a tab in them.
StoreKeys ==
    Paths \cup {<<>>, <<"1">>, PathA \o <<CR>>, <<"/", CR, "a">>, <<"/", NL, "a">>,
                <<"/", TAB, "a">>}

StoreCounts == Counts \cup {10}

StoreMaps ==
    UNION {[S -> StoreCounts] : S \in {T \in SUBSET StoreKeys : Cardinality(T) <= MaxEntries}}

\* Lines of a store file: well formed (also with "+", with a second tab, with a
\* carriage return before the line feed), and malformed: empty, without a tab,
\* with a count that is no number, is negative, is empty or exceeds u32::MAX,
\* and bytes that are not UTF-8.
StoreLines ==
    {<<"1", TAB>> \o PathA,
     <<"1", "0", TAB>> \o PathB,
     <<"+", "2", TAB>> \o PathA,
     <<"2", TAB>> \o PathA \o <<TAB, "b">>,
     <<"2", TAB>> \o PathAB \o <<CR>>,
     <<>>,
     <<"x">>,
     <<"x", TAB>> \o PathA,
     <<"-", "1", TAB>> \o PathA,
     <<TAB>> \o PathA,
     <<"4", "2", "9", "4", "9", "6", "7", "2", "9", "6", TAB>> \o PathA,
     <<InvalidUtf8>>,
     <<"1", TAB, InvalidUtf8>>}

RECURSIVE join_lines(_)
join_lines(ls) ==
    IF ls = <<>> THEN <<>> ELSE Head(ls) \o <<NL>> \o join_lines(Tail(ls))

\* The absent file, and files of lines that can or cannot be opened for reading.
StoreFiles ==
    {NoFile}
    \cup {[exists |-> TRUE, readable |-> readable, bytes |-> join_lines(ls)] :
             readable \in BOOLEAN, ls \in SeqsUpTo(StoreLines, MaxLines)}

StoreInit ==
    /\ \/ \E frequency_map \in StoreMaps :
            \E order \in Orders(DOMAIN frequency_map) :
              \E f \in {NoFile, FileOf(<<"x", NL>>)} :
                storeCall = [op |-> "save", pc |-> "save", frequency_map |-> frequency_map,
                             order |-> order, f |-> f, loaded |-> None, reloaded |-> None]
       \/ \E f \in StoreFiles :
            storeCall = [op |-> "load", pc |-> "load", frequency_map |-> EmptyMap,
                         order |-> <<>>, f |-> f, loaded |-> None, reloaded |-> None]
    /\ sortCall = Unused /\ searchCall = Unused /\ navCall = Unused
    /\ file = Unused /\ disk = Unused /\ proc = Unused /\ app = Unused

\* save(&frequency_map), and save of the map that load returned.
StoreSave ==
    /\ \/ /\ storeCall.pc = "save"
          /\ storeCall' = [storeCall EXCEPT
                              !.pc = "load",
                              !.f = save(@, storeCall.frequency_map, storeCall.order)]
       \/ /\ storeCall.pc = "resave" /\ storeCall.loaded[1].ok
          /\ \E order \in Orders(DOMAIN storeCall.loaded[1].val) :
                 storeCall' = [storeCall EXCEPT
                                  !.pc = "reload",
                                  !.f = save(@, storeCall.loaded[1].val, order)]
    /\ UNCHANGED <<sortCall, searchCall, navCall, sysVars>>

\* load()
StoreLoad ==
    /\ \/ /\ storeCall.pc = "load"
          /\ storeCall' = [storeCall EXCEPT
                              !.pc = IF storeCall.op = "save" THEN "resave" ELSE "end",
                              !.loaded = Some(load(storeCall.f))]
       \/ /\ storeCall.pc = "reload"
          /\ storeCall' = [storeCall EXCEPT !.pc = "end",
                                            !.reloaded = Some(load(storeCall.f))]
    /\ UNCHANGED <<sortCall, searchCall, navCall, sysVars>>

StoreNext == StoreSave \/ StoreLoad

SpecStore == StoreInit /\ [][StoreNext]_vars

\* The string s has the character c in it.
HasChar(s, c) == \E i \in DOMAIN s : s[i] = c

(***************************************************************************)
(* C12: for every mapping M whose keys have no tab and no newline in them, *)
(* load after save(M) returns M, and so does load after saving what was    *)
(* loaded.                                                                 *)
(***************************************************************************)
C12_RoundTrip ==
    (/\ storeCall.op = "save" /\ storeCall.pc = "end"
     /\ \A key \in DOMAIN storeCall.frequency_map : ~HasChar(key, TAB) /\ ~HasChar(key, NL))
    => /\ storeCall.loaded = Some(Ok(storeCall.frequency_map))
       /\ storeCall.reloaded = Some(Ok(storeCall.frequency_map))

(***************************************************************************)
(* C13: two runs of search on identical input (pattern, usage map, lookup  *)
(* output, directory classification) return the same result, entries that  *)
(* tie on count and path length included; so the first entry, which the    *)
(* one-shot mode prints, is the same in both runs.                         *)
(***************************************************************************)
C13_Deterministic ==
    searchCall.pc = "again"
    => /\ searchCall.again = searchCall.result
       /\ (searchCall.result.ok /\ searchCall.again.ok)
          => searchCall.again.val.directories[1].path
                 = searchCall.result.val.directories[1].path

(***************************************************************************)
(* C14: the one-shot search takes the first entry of the ranked result and *)
(* checks it against the file system as it is at that moment: when the     *)
(* path is a directory it is printed to standard output and the process    *)
(* exits 0; when it has vanished, or is no longer a directory, the process *)
(* reports DirectoryNotFound, prints no path and exits 1.  A one-shot      *)
(* search prints a path in no other step.                                  *)
(***************************************************************************)
C14_VerifyBeforePrint ==
    [][\A p \in Procs :
          /\ (proc[p].pc = "search_verify" /\ proc'[p] # proc[p])
             => LET directories == proc[p].result[1].directories
                    first == directories[1].path
                IN  /\ IsRanked(directories)
                    /\ proc'[p].pc = "done"
                    /\ IF disk[first] = "dir"
                       THEN /\ proc'[p].stdout = Some(first)
                            /\ proc'[p].exit = Some(0)
                       ELSE /\ proc'[p].stdout = None
                            /\ proc'[p].exit = Some(1)
                            /\ proc'[p].stderr = "Error: Directory not found"
          /\ (proc[p].cmd = "search" /\ proc'[p].stdout # proc[p].stdout)
             => proc[p].pc = "search_verify"
      ]_vars

\* The search found /a, which was removed before the check: nothing is printed.
C14_Witness ==
    /\ proc[1].cmd = "search" /\ proc[1].pc = "done"
    /\ proc[1].result # None
    /\ proc[1].result[1].directories[1].path = PathA
    /\ disk[PathA] = "none"
    /\ proc[1].stdout = None
    /\ proc[1].exit = Some(1)
    /\ proc[1].stderr = "Error: Directory not found"

\* A line load takes an entry from: it has a tab, and a u32 before the first tab.
WellFormedLine(line) ==
    /\ split_once(line, TAB) # None
    /\ parse_u32(split_once(line, TAB)[1][1]) # None

(***************************************************************************)
(* C15: load returns the empty mapping when the store file is absent, an   *)
(* I/O error when the file exists but cannot be read, and otherwise, never *)
(* failing whatever the content, the mapping of the well-formed lines:     *)
(* lines with no tab or with a count that is no number are skipped.        *)
(***************************************************************************)
C15_Load ==
    (storeCall.op = "load" /\ storeCall.pc = "end")
    => LET f == storeCall.f
           r == storeCall.loaded[1]
       IN  /\ ~f.exists => r = Ok(EmptyMap)
           /\ (f.exists /\ ~f.readable) => ~r.ok
           /\ (f.exists /\ f.readable)
              => /\ r.ok
                 /\ r.val = load_lines(EmptyMap,
                                       SelectSeq(buf_lines(f.bytes), WellFormedLine))

\* The outcome of running locate when the program cannot be launched.
NotLaunched == [launched |-> FALSE, stdout |-> <<>>]

(***************************************************************************)
(* C16: when locate cannot be launched, search returns the lookup error,   *)
(* whatever the usage map holds, and the error reaches the mode-level      *)
(* handler: the process reports it and exits non-zero.  Stated for the     *)
(* interactive mode: a step of the picker that handles a typed character   *)
(* in Search view as handle_character_input does when the lookup fails     *)
(* ends the process with an error message and a non-zero exit code.        *)
(***************************************************************************)
C16_LookupErrorSurfaces ==
    [][\A c \in PatternChars :
          (/\ proc[1].pc = "run_app"
           /\ app.view_mode = "Search"
           /\ Len(app.input) < MaxPattern
           /\ proc'[1].key = <<"Char", c>>
           /\ app' \in handle_character_input(app, c, NotLaunched, disk))
          => /\ \A r \in search_results(Append(app.input, c), app.frequency_map,
                                        NotLaunched, disk) :
                     r = Err("LocateCommand")
             /\ proc'[1].pc = "done"
             /\ proc'[1].exit # None /\ proc'[1].exit # Some(0)
             /\ proc'[1].stderr # ""
      ]_vars

(***************************************************************************)
(* C17: a reset-frequency event whose save fails does not end the session: *)
(* a step that handles Shift+Delete on a selected row as reset_frequency   *)
(* does when the save fails (the store file untouched) leaves the picker   *)
(* in its loop, with neither should_quit nor user_selected set and the     *)
(* process not exited, so the next event is read.  A store that cannot be  *)
(* loaded at startup ends the process with an error and exit code 1        *)
(* before the loop is entered; one that can be loaded leads into the loop. *)
(***************************************************************************)
C17_WriteFailureSwallowed ==
    [][ /\ (/\ proc[1].pc = "run_app"
            /\ get_selected_directory(app) # None
            /\ proc'[1].key = <<"ShiftDelete">>
            /\ app' = reset_frequency(app, FALSE).self
            /\ file' = file)
           => /\ reset_frequency(app, FALSE).ret = Err("IoError")
              /\ proc'[1].pc = "run_app"
              /\ ~app'.should_quit /\ ~app'.user_selected
              /\ proc'[1].exit = None /\ proc'[1].stderr = ""
        /\ (proc[1].pc = "app_new" /\ proc'[1] # proc[1])
           => IF load(file).ok
              THEN /\ proc'[1].pc = "run_app"
                   /\ app'.frequency_map = Stored(file)
              ELSE /\ proc'[1].pc = "done" /\ proc'[1].exit = Some(1)
                   /\ proc'[1].stderr # ""
                   /\ app' = Unused
      ]_vars

\* The save of a reset of /a/b failed: the store still counts /a/b, the session's
\* map does not, and the session goes on with the row as it was.
C17_Witness ==
    /\ proc[1].pc = "run_app" /\ proc[1].key = <<"ShiftDelete">>
    /\ get_selected_directory(app) = Some(PathAB)
    /\ PathAB \notin DOMAIN app.frequency_map
    /\ app.directories[app.list_state[1] + 1].count = 2
    /\ Stored(file) = (PathB :> 0 @@ PathAB :> 2)
    /\ proc[2].pc = "idle"

C19_ResetInSearchView ==
    [][(/\ proc[1].pc = "run_app"
        /\ app.view_mode = "Search"
        /\ get_selected_directory(app) # None
        /\ proc'[1].key = <<"ShiftDelete">>
        /\ proc'[2] = proc[2])
       => LET path == get_selected_directory(app)[1]
              i == app.list_state[1]
              old == app.directories
              new == app'.directories
          IN  /\ Len(new) = Len(old)
              /\ app'.view_mode = "Search"
              /\ app'.frequency_map = map_remove(app.frequency_map, path)
              /\ (file' # file \/ new # old)
                 => /\ load(file').ok
                    /\ Stored(file') = app'.frequency_map
                    /\ path \notin DOMAIN Stored(file')
                    /\ IsPermutation(new, [old EXCEPT ![i + 1].count = 0])
                    /\ IsRanked(new)
                    /\ get_selected_directory(app') = Some(path)
                    /\ new[app'.list_state[1] + 1].count = 0
      ]_vars

\* /a/b, first of two rows with count 2, was reset: its row, now with count 0, is
\* the second, after the shorter /a, and is the selected one.
C19_Witness ==
    /\ proc[1].pc = "run_app" /\ proc[1].key = <<"ShiftDelete">>
    /\ app.view_mode = "Search"
    /\ app.directories = <<DirectoryEntry(PathA, 0), DirectoryEntry(PathAB, 0)>>
    /\ app.list_state = Some(1)
    /\ PathAB \notin DOMAIN Stored(file)
    /\ PathB \in DOMAIN Stored(file)

(***************************************************************************)
(* SpecPicker: the interactive picker on its own, no other process         *)
(* writing the store, with inputs of up to MaxInput characters.            *)
(***************************************************************************)
\* The stores of SessionInit, and one with three counted directories: two of the
\* same length counted once, and the longer path counted twice.
PickerFiles ==
    InitFiles
    \cup {FileOf(<<"1", TAB>> \o PathA \o <<NL, "1", TAB>> \o PathB
                  \o <<NL, "2", TAB>> \o PathAB \o <<NL>>)}

PickerInit ==
    /\ sortCall = Unused /\ searchCall = Unused /\ navCall = Unused
    /\ storeCall = Unused
    /\ file \in PickerFiles
    /\ disk \in InitDisks
    /\ proc = [p \in Procs |-> IdleProc]
    /\ app = Unused

\* KeyCode::Char(c), for inputs of at most MaxInput characters.
KeyCharLong(p) == KeyCharUpTo(p, MaxInput)

PickerNext ==
    \/ RunInteractive(1) \/ AppNew(1)
    \/ KeyQuit(1) \/ KeyEnter(1) \/ KeyTab(1) \/ KeyCharLong(1) \/ KeyBackspace(1)
    \/ KeyNavigate(1) \/ KeyShiftDelete(1) \/ KeyOther(1) \/ ReadEventFails(1)
    \/ AfterLoop(1) \/ Deliver(1)
    \/ IncrementLoad(1) \/ IncrementSave(1)

SpecPicker == PickerInit /\ [][PickerNext]_vars

\* rows is the list for the input of the App self: in Search view the result of a
\* search for it (none for the empty input or when nothing is found), in Frequent
\* view the frequent list filtered by it. A search whose lookup could not be
\* launched has no result: the rows are then the list shown before, old.
ListForInput(self, rows, old, fs) ==
    IF self.view_mode = "Search"
    THEN IF self.input = <<>> THEN rows = <<>>
         ELSE \E locate \in LocateOutcomes :
                \E r \in search_results(self.input, self.frequency_map, locate, fs) :
                    rows = IF r.ok THEN r.val.directories
                           ELSE IF r.err = "NoDirectoriesFound" THEN <<>>
                           ELSE old
    ELSE \E shown \in show_frequent_directories(self, fs) : rows = shown.directories

(***************************************************************************)
(* C20: after every character-input or backspace event, in either view,    *)
(* the input is the old one with the character added or the last one       *)
(* dropped, the visible list is the result of the search (Search view) or  *)
(* of the filter on the frequent list (Frequent view) for the new input,   *)
(* empty for the empty input in Search view, and the selection is index 0  *)
(* if the list is non-empty and none otherwise.                            *)
(***************************************************************************)
C20_ListFollowsInput ==
    [][(/\ proc[1].pc = "run_app"
        /\ \/ proc'[1].key = <<"Backspace">>
           \/ \E c \in PatternChars : proc'[1].key = <<"Char", c>>)
       => /\ \/ /\ proc'[1].key = <<"Backspace">>
                /\ app'.input = IF app.input = <<>> THEN <<>>
                                ELSE SubSeq(app.input, 1, Len(app.input) - 1)
             \/ \E c \in PatternChars :
                    proc'[1].key = <<"Char", c>> /\ app'.input = Append(app.input, c)
          /\ ListForInput(app', app'.directories, app.directories, disk)
          /\ app'.list_state = IF app'.directories # <<>> THEN Some(0) ELSE None
      ]_vars

\* The usage-map entries that the Frequent view lists for an input: counted at least
\* once, directories, and containing the input whatever the case of its letters.
FrequentPaths(frequency_map, input, fs) ==
    {path \in DOMAIN frequency_map :
        /\ frequency_map[path] > 0
        /\ fs[path] = "dir"
        /\ ContainsIgnoringCase(path, input)}

\* rows lists exactly the paths of S, each once, with its count in frequency_map
\* (0 when it has none), in the Ranker's order.
ListsRanked(rows, S, frequency_map) ==
    /\ {rows[i].path : i \in DOMAIN rows} = S
    /\ Len(rows) = Cardinality(S)
    /\ \A i \in DOMAIN rows :
           rows[i].count = IF rows[i].path \in DOMAIN frequency_map
                           THEN frequency_map[rows[i].path] ELSE 0
    /\ IsRanked(rows)

(***************************************************************************)
(* C21: a Tab in Search view changes to Frequent view and lists exactly    *)
(* the usage-map entries with a count above 0 that are directories and     *)
(* contain the input ignoring case (all of them for the empty input), in   *)
(* the Ranker's order.  A Tab in Frequent view changes to Search view;     *)
(* with an empty input the list is empty and nothing is selected, with a   *)
(* non-empty input the list is the result of a search for it: the          *)
(* lookup's directories and the matching usage-map keys in the Ranker's    *)
(* order, for some output of the lookup.  The input and the usage map are  *)
(* left alone.                                                             *)
(***************************************************************************)
C21_ToggleView ==
    [][(proc[1].pc = "run_app" /\ proc'[1].key = <<"Tab">>)
       => /\ app'.input = app.input
          /\ app'.frequency_map = app.frequency_map
          /\ IF app.view_mode = "Search"
             THEN /\ app'.view_mode = "Frequent"
                  /\ ListsRanked(app'.directories,
                                 FrequentPaths(app.frequency_map, app.input, disk),
                                 app.frequency_map)
             ELSE /\ app'.view_mode = "Search"
                  /\ IF app.input = <<>>
                     THEN app'.directories = <<>> /\ app'.list_state = None
                     ELSE \E lookup \in SeqsUpTo(Paths, MaxLocate) :
                              ListsRanked(app'.directories,
                                          ClaimedCandidates(app.input, app.frequency_map,
                                                            lookup, disk),
                                          app.frequency_map)
      ]_vars

(***************************************************************************)
(* SpecRace: two processes inside FrequencyManager::save at the same time, *)
(* as when the session resets a count while `ccd --increment` or           *)
(* `ccd --bookmark` saves.  save is File::create, which truncates the file *)
(* and gives the process a file offset of its own, starting at 0, and then *)
(* one writeln! per entry at that offset.  Each writeln! is taken as one   *)
(* write; the program issues several, so the model's interleavings are     *)
(* among the program's.                                                    *)
(***************************************************************************)
\* A byte of the hole that a write beyond the end of the file leaves.
NUL == "<00>"

\* write(2) of data at a file offset: bytes there are replaced, the file grows as
\* needed, and a gap between its end and the offset reads as NUL bytes.
write_at(bytes, offset, data) ==
    LET end == offset + Len(data)
    IN  [i \in 1 .. (IF Len(bytes) > end THEN Len(bytes) ELSE end) |->
            IF i > offset /\ i <= end THEN data[i - offset]
            ELSE IF i <= Len(bytes) THEN bytes[i]
            ELSE NUL]

\* The maps the two processes hold: at most MaxEntries directories, each counted.
RaceMaps ==
    UNION {[S -> 1 .. MaxCount] : S \in {T \in SUBSET Paths : Cardinality(T) <= MaxEntries}}

\* A process about to call save(&frequency_map).
Saver(frequency_map) ==
    [pc |-> "create", frequency_map |-> frequency_map, order |-> <<>>, offset |-> 0,
     ret |-> None]

RaceInit ==
    /\ \E m1, m2 \in RaceMaps :
         \E f \in {NoFile, FileOf(<<"1", TAB>> \o PathA \o <<NL>>)} :
           storeCall = [pc |-> "race", f |-> f,
                        savers |-> [p \in Procs |-> Saver(IF p = 1 THEN m1 ELSE m2)]]
    /\ sortCall = Unused /\ searchCall = Unused /\ navCall = Unused
    /\ file = Unused /\ disk = Unused /\ proc = Unused /\ app = Unused

\* The saver s has nothing left to write, or goes on writing.
AfterWrite(s) ==
    IF s.order = <<>> THEN [s EXCEPT !.pc = "done", !.ret = Some(Ok(<<>>))]
    ELSE [s EXCEPT !.pc = "write"]

\* fs::File::create(&freq_file)?
RaceCreate(p) ==
    /\ storeCall.pc = "race"
    /\ storeCall.savers[p].pc = "create"
    /\ LET s == storeCall.savers[p]
       IN  \/ storeCall' = [storeCall EXCEPT
                               !.savers[p] = [s EXCEPT !.pc = "done",
                                                       !.ret = Some(Err("IoError"))]]
           \/ \E order \in Orders(DOMAIN s.frequency_map) :
                storeCall' = [storeCall EXCEPT
                                 !.f = save(@, EmptyMap, <<>>),
                                 !.savers[p] = AfterWrite([s EXCEPT !.order = order])]
    /\ UNCHANGED <<sortCall, searchCall, navCall, sysVars>>

\* writeln!(file, "{count}\t{path}")? for the next entry of the map.
RaceWrite(p) ==
    /\ storeCall.pc = "race"
    /\ storeCall.savers[p].pc = "write"
    /\ LET s == storeCall.savers[p]
           data == write_entries(s.frequency_map, <<Head(s.order)>>)
       IN  \/ storeCall' = [storeCall EXCEPT
                               !.savers[p] = [s EXCEPT !.pc = "done",
                                                       !.ret = Some(Err("IoError"))]]
           \/ storeCall' = [storeCall EXCEPT
                               !.f.bytes = write_at(@, s.offset, data),
                               !.savers[p] = AfterWrite([s EXCEPT
                                                            !.order = Tail(@),
                                                            !.offset = @ + Len(data)])]
    /\ UNCHANGED <<sortCall, searchCall, navCall, sysVars>>

RaceNext == \E p \in Procs : RaceCreate(p) \/ RaceWrite(p)

SpecRace == RaceInit /\ [][RaceNext]_vars

(***************************************************************************)
(* C22: every mutation writes the writer's whole map and the last writer   *)
(* wins: once all processes have finished saving, the stored mapping is    *)
(* the complete map of the last saver.  Stated here for two savers whose   *)
(* saves both succeeded, and whichever of them is taken to be the last:    *)
(* the store can be loaded and holds the complete map of one of them.      *)
(***************************************************************************)
C22_LastWriterWins ==
    (/\ storeCall.pc = "race"
     /\ \A p \in Procs : storeCall.savers[p].pc = "done" /\ storeCall.savers[p].ret = Some(Ok(<<>>)))
    => /\ load(storeCall.f).ok
       /\ \E p \in Procs : Stored(storeCall.f) = storeCall.savers[p].frequency_map

(***************************************************************************)
(* C23: in every state of the interactive session, whatever keys were      *)
(* typed (characters, Backspace, navigation, Tab, Shift+Delete), nothing   *)
(* is selected exactly when the visible list is empty, and otherwise the   *)
(* selection is an index below the list's length.                          *)
(***************************************************************************)
C23_SelectionInList ==
    app # Unused =>
        /\ app.list_state = None <=> app.directories = <<>>
        /\ app.list_state # None => app.list_state[1] \in 0 .. Len(app.directories) - 1

\* The Frequent view after Shift+Delete on the last of three rows: two rows are left
\* and the selection has moved up to the new last row.
C23_Witness ==
    /\ proc[1].pc = "run_app" /\ proc[1].key = <<"ShiftDelete">>
    /\ app.view_mode = "Frequent"
    /\ Len(app.directories) = 2 /\ app.list_state = Some(1)
    /\ Cardinality(DOMAIN app.frequency_map) = 2
    /\ Cardinality(DOMAIN Stored(file)) = 2

(***************************************************************************)
(* C24: in every state of the interactive session the visible list has no  *)
(* two rows with the same path and is in the Ranker's order, count         *)
(* descending and then path length ascending; removing a row, filtering    *)
(* and resetting a count keep it so.                                       *)
(***************************************************************************)
C24_ListRankedNoDuplicates ==
    app # Unused =>
        /\ \A i, j \in DOMAIN app.directories :
               app.directories[i].path = app.directories[j].path => i = j
        /\ IsRanked(app.directories)

\* The Search view after Shift+Delete on the first of three rows, the longest path
\* with the highest count: the row is now the last, with count 0, and selected.
C24_Witness ==
    /\ proc[1].pc = "run_app" /\ proc[1].key = <<"ShiftDelete">>
    /\ app.view_mode = "Search"
    /\ Len(app.directories) = 3
    /\ app.directories[1].count = 1 /\ app.directories[2].count = 1
    /\ app.directories[3] = DirectoryEntry(PathAB, 0)
    /\ app.list_state = Some(2)
    /\ PathAB \notin DOMAIN app.frequency_map

(***************************************************************************)
(* C25: in every state of the interactive session, also after a            *)
(* Shift+Delete whose save failed and after a search whose lookup failed,  *)
(* the count each visible row shows is the count of its path in the        *)
(* session's usage map, 0 when the map has no entry for the path.          *)
(***************************************************************************)
C25_RowCountsAreMapCounts ==
    app # Unused =>
        \A i \in DOMAIN app.directories :
            app.directories[i].count = get_or_0(app.frequency_map, app.directories[i].path)

====
